---- MODULE Spec2Model ----
(***************************************************************************)
(* Model of flathub_mapper.py: the pipeline of main() that parses the      *)
(* Flathub AppStream feed, queries nixpkgs, seeds stubs for the curated    *)
(* table, matches components to packages, writes the mapping report and    *)
(* assembles the AppStream catalog.                                        *)
(*                                                                         *)
(* Strings the program inspects character by character (identifiers,      *)
(* attribute paths, icon references) are sequences of one-character        *)
(* strings; strings it only copies (versions, display names) are TLA+      *)
(* strings.  An optional value (None in the source) is a sequence of       *)
(* length 0 or 1.                                                          *)
(***************************************************************************)
EXTENDS Integers, Sequences, FiniteSets, TLC

VARIABLES
    pc,                 \* position of main()
    args,               \* parsed command line: no_nix_search, no_icons, mapping_only
    feed,               \* what fetch_flathub_appstream left at xml_path
    search,             \* what happened to the nix search subprocess
    flathub_components, \* dict id -> FlathubComponent, in insertion order
    snapshot,           \* value scan_nixpkgs_desktop_files returned (before seeding)
    nixpkgs_packages,   \* dict attr -> NixPackage
    mappings,           \* list of Mapping
    report,             \* mapping_report.json, None until written
    idx,                \* loop position of generate_appstream_catalog
    root,               \* children appended to the catalog root so far
    failed,             \* positions of mappings whose transformation raised
    icon_count,         \* icons download_icon returned a path for
    catalog_xml,        \* nixpkgs-flathub_x86_64.xml, None until written
    catalog_gz          \* nixpkgs-flathub_x86_64.xml.gz, None until written

vars ==
    <<pc, args, feed, search, flathub_components, snapshot, nixpkgs_packages,
      mappings, report, idx, root, failed, icon_count, catalog_xml, catalog_gz>>

None == <<>>
Some(x) == <<x>>

(***************************************************************************)
(* Bounds of the model.                                                    *)
(***************************************************************************)
MaxFeedLen == 2
MaxBulkExtra == 2

(***************************************************************************)
(* str methods used by the program.                                        *)
(***************************************************************************)
UpperChars ==
    <<"A", "B", "C", "D", "E", "F", "G", "H", "I", "J", "K", "L", "M",
      "N", "O", "P", "Q", "R", "S", "T", "U", "V", "W", "X", "Y", "Z">>
LowerChars ==
    <<"a", "b", "c", "d", "e", "f", "g", "h", "i", "j", "k", "l", "m",
      "n", "o", "p", "q", "r", "s", "t", "u", "v", "w", "x", "y", "z">>

LowerChar(c) ==
    IF \E i \in DOMAIN UpperChars : UpperChars[i] = c
    THEN LowerChars[CHOOSE i \in DOMAIN UpperChars : UpperChars[i] = c]
    ELSE c

\* str.lower()
lower(s) == [i \in DOMAIN s |-> LowerChar(s[i])]

\* str.split(".")
RECURSIVE split(_)
split(s) ==
    IF \E i \in DOMAIN s : s[i] = "."
    THEN LET i == CHOOSE j \in DOMAIN s :
                      s[j] = "." /\ \A k \in 1..(j - 1) : s[k] # "."
         IN  <<SubSeq(s, 1, i - 1)>> \o split(SubSeq(s, i + 1, Len(s)))
    ELSE <<s>>

\* str.endswith(suffix)
endswith(s, suffix) ==
    /\ Len(s) >= Len(suffix)
    /\ SubSeq(s, Len(s) - Len(suffix) + 1, Len(s)) = suffix

\* str.removesuffix(suffix)
removesuffix(s, suffix) ==
    IF Len(suffix) > 0 /\ endswith(s, suffix)
    THEN SubSeq(s, 1, Len(s) - Len(suffix))
    ELSE s

\* str.strip()
RECURSIVE strip(_)
strip(s) ==
    IF s = <<>> THEN s
    ELSE IF Head(s) = " " THEN strip(Tail(s))
    ELSE IF s[Len(s)] = " " THEN strip(SubSeq(s, 1, Len(s) - 1))
    ELSE s

(***************************************************************************)
(* Program constants.                                                      *)
(***************************************************************************)
FLATHUB_ICONS_BASE_URL ==
    <<"h", "t", "t", "p", "s", ":", "/", "/", "d", "l", ".", "f", "l", "a",
      "t", "h", "u", "b", ".", "o", "r", "g", "/", "r", "e", "p", "o", "/",
      "a", "p", "p", "s", "t", "r", "e", "a", "m", "/", "x", "8", "6", "_",
      "6", "4", "/", "i", "c", "o", "n", "s">>
SIZE_DIR ==
    <<"/", "1", "2", "8", "x", "1", "2", "8", "/">>
DESKTOP_SUFFIX ==
    <<".", "d", "e", "s", "k", "t", "o", "p">>
SVG_SUFFIX ==
    <<".", "s", "v", "g">>
PNG_SUFFIX ==
    <<".", "p", "n", "g">>
DesktopTypes == {"desktop", "desktop-application"}
\* the window and the cap of the report's unmapped_popular sample
SampleWindow == 100
SampleLimit == 20

(***************************************************************************)
(* Identifiers and attribute names used as inputs.                         *)
(***************************************************************************)
Id_firefox ==
    <<"o", "r", "g", ".", "m", "o", "z", "i", "l", "l", "a", ".",
      "f", "i", "r", "e", "f", "o", "x">>
Id_VLC ==
    <<"o", "r", "g", ".", "v", "i", "d", "e", "o", "l", "a", "n", ".",
      "V", "L", "C">>
Id_Signal ==
    <<"o", "r", "g", ".", "s", "i", "g", "n", "a", "l", ".",
      "S", "i", "g", "n", "a", "l">>
Id_exFirefox ==
    <<"c", "o", "m", ".", "e", "x", "a", "m", "p", "l", "e", ".",
      "F", "i", "r", "e", "f", "o", "x">>
Id_exUnknown ==
    <<"c", "o", "m", ".", "e", "x", "a", "m", "p", "l", "e", ".",
      "U", "n", "k", "n", "o", "w", "n">>
Id_exTool ==
    <<"o", "r", "g", ".", "e", "x", "a", "m", "p", "l", "e", ".",
      "t", "o", "o", "l">>
Id_exDot ==
    <<"o", "r", "g", ".", "e", "x", "a", "m", "p", "l", "e", ".">>
Attr_firefox ==
    <<"f", "i", "r", "e", "f", "o", "x">>
Attr_vlc ==
    <<"v", "l", "c">>
Attr_signal_desktop ==
    <<"s", "i", "g", "n", "a", "l", "-", "d", "e", "s", "k", "t", "o", "p">>
Attr_signal ==
    <<"s", "i", "g", "n", "a", "l">>
Attr_unknown ==
    <<"u", "n", "k", "n", "o", "w", "n">>
LegacyPrefix ==
    <<"l", "e", "g", "a", "c", "y", "P", "a", "c", "k", "a", "g", "e", "s",
      ".", "x", "8", "6", "_", "6", "4", "-", "l", "i", "n", "u", "x", ".">>
Icon_firefox ==
    <<"o", "r", "g", ".", "m", "o", "z", "i", "l", "l", "a", ".",
      "f", "i", "r", "e", "f", "o", "x", ".", "p", "n", "g">>
Icon_vlc ==
    <<"h", "t", "t", "p", "s", ":", "/", "/", "d", "l", ".", "f", "l", "a",
      "t", "h", "u", "b", ".", "o", "r", "g", "/", "m", "e", "d", "i", "a",
      "/", "v", "l", "c", ".", "s", "v", "g">>
Icon_firefox_svg ==
    <<"h", "t", "t", "p", "s", ":", "/", "/", "d", "l", ".", "f", "l", "a",
      "t", "h", "u", "b", ".", "o", "r", "g", "/", "m", "e", "d", "i", "a",
      "/", "f", "i", "r", "e", "f", "o", "x", ".", "s", "v", "g">>

(***************************************************************************)
(* build_desktop_id_mapping: the curated table (three of its rows).        *)
(***************************************************************************)
build_desktop_id_mapping ==
    (Id_firefox :> Attr_firefox)
        @@ (Id_Signal :> Attr_signal_desktop)
        @@ (Id_VLC :> Attr_vlc)

\* the values of a dict
Values(d) == {d[k] : k \in DOMAIN d}

(***************************************************************************)
(* The feed: <component> elements.  An element keeps what the program      *)
(* reads or rewrites: its type attribute, <id>, <name>, <pkgname>,         *)
(* <releases> (the versions of its <release> children) and its direct      *)
(* <icon> children.                                                        *)
(***************************************************************************)
Icon(type, text, size) ==
    [type |-> type, text |-> text, width |-> size, height |-> size]

Element(type, id, name, pkgname, releases, icons) ==
    [type |-> type, id |-> id, name |-> name, pkgname |-> pkgname,
     releases |-> releases, icons |-> icons]

E_firefox ==
    Element("desktop-application", Id_firefox \o DESKTOP_SUFFIX, "Firefox",
            None, <<"130.0">>, <<Icon("cached", Icon_firefox, "64")>>)
E_vlc ==
    Element("desktop", Id_VLC, "VLC", Some(Attr_unknown), <<"3.0.21", "3.0.20">>,
            <<Icon("remote", Icon_vlc, "128")>>)
E_signal ==
    Element("desktop-application", Id_Signal, "Signal", None, <<>>, <<>>)
E_exFirefox ==
    Element("desktop", Id_exFirefox, "Firefox Example", None, <<>>,
            <<Icon("stock", Attr_firefox, "")>>)
E_exUnknown ==
    Element("desktop-application", Id_exUnknown, "Unknown", None, <<>>, <<>>)
E_exDot ==
    Element("desktop", Id_exDot, "Dot", None, <<>>, <<>>)
E_exTool ==
    Element("console-application", Id_exTool, "Tool", None, <<>>, <<>>)
\* a second entry for org.mozilla.firefox, its cached icon before its remote one
E_firefox2 ==
    Element("desktop", Id_firefox, "Firefox Web Browser", None, <<"131.0">>,
            <<Icon("cached", Icon_firefox, "128"), Icon("remote", Icon_firefox_svg, "")>>)
\* an entry whose <id> is the bare suffix
E_suffixOnly ==
    Element("desktop", DESKTOP_SUFFIX, "Suffix", None, <<>>, <<>>)

FeedElements ==
    {E_firefox, E_vlc, E_signal, E_exFirefox, E_exUnknown, E_exDot, E_exTool,
     E_firefox2, E_suffixOnly}

\* the documents fetch_flathub_appstream may leave at xml_path
FeedDocs == UNION {[1..n -> FeedElements] : n \in 0..MaxFeedLen}

(***************************************************************************)
(* parse_flathub_appstream                                                 *)
(***************************************************************************)
\* the icon loop: the first icon that is remote or cached, with text
RECURSIVE ResolveIcon(_)
ResolveIcon(icons) ==
    IF icons = <<>> THEN None
    ELSE IF Head(icons).type = "remote" /\ Head(icons).text # <<>>
         THEN Some(Head(icons).text)
    ELSE IF Head(icons).type = "cached" /\ Head(icons).text # <<>>
         THEN Some(FLATHUB_ICONS_BASE_URL \o SIZE_DIR \o Head(icons).text)
    ELSE ResolveIcon(Tail(icons))

FlathubComponent(id, name, icon_url, raw_xml) ==
    [id |-> id, name |-> name, icon_url |-> icon_url, raw_xml |-> raw_xml]

\* components[key] = value on an insertion-ordered dict
DictPut(components, value) ==
    IF \E i \in DOMAIN components : components[i].id = value.id
    THEN [i \in DOMAIN components |->
             IF components[i].id = value.id THEN value ELSE components[i]]
    ELSE Append(components, value)

\* the body of the loop over root.findall(".//component")
ParseComponent(components, component) ==
    IF component.type \notin DesktopTypes THEN components
    ELSE LET comp_id == strip(component.id) IN
         IF comp_id = <<>> THEN components
         ELSE LET base_id == removesuffix(comp_id, DESKTOP_SUFFIX) IN
              DictPut(components,
                      FlathubComponent(base_id, component.name,
                                       ResolveIcon(component.icons), component))

\* dict.update: the values of `later` replace those of `earlier` in place,
\* its new keys are appended in order
DictUpdate(earlier, later) ==
    LET IsNew(value) == \A i \in DOMAIN earlier : earlier[i].id # value.id
        Latest(value) ==
            IF \E j \in DOMAIN later : later[j].id = value.id
            THEN later[CHOOSE j \in DOMAIN later : later[j].id = value.id]
            ELSE value
    IN  [i \in DOMAIN earlier |-> Latest(earlier[i])] \o SelectSeq(later, IsNew)

\* the dict built by the loop over elements lo..hi of the document: the loop
\* over lo..mid, then the entries of the loop over mid+1..hi
\* (split in halves to keep the evaluation shallow)
RECURSIVE ParseRange(_, _, _)
ParseRange(doc, lo, hi) ==
    IF lo > hi THEN <<>>
    ELSE IF lo = hi THEN ParseComponent(<<>>, doc[lo])
    ELSE LET mid == (lo + hi) \div 2 IN
         DictUpdate(ParseRange(doc, lo, mid), ParseRange(doc, mid + 1, hi))

parse_flathub_appstream(doc) == ParseRange(doc, 1, Len(doc))

\* dict views of the component mapping
Keys(components) == {components[i].id : i \in DOMAIN components}
Position(components, id) == CHOOSE i \in DOMAIN components : components[i].id = id

(***************************************************************************)
(* scan_nixpkgs_desktop_files                                              *)
(***************************************************************************)
NixPackage(attr, version) ==
    [attr |-> attr, version |-> version, desktop_ids |-> <<>>]

Row(attr_path, version) == [attr_path |-> attr_path, version |-> version]

R_firefox == Row(LegacyPrefix \o Attr_firefox, Some("128.0"))
R_vlc == Row(LegacyPrefix \o Attr_vlc, Some("3.0.20"))
R_unknown == Row(LegacyPrefix \o Attr_unknown, None)
R_empty == Row(LegacyPrefix, Some("1.0"))
R_short == Row(<<"n", "i", "x", ".">> \o Attr_firefox, Some("0.1"))
R_signal == Row(LegacyPrefix \o Attr_signal, Some("7.0"))

\* the JSON objects nix search may print
SearchResults ==
    { <<>>,
      <<R_firefox>>,
      <<R_vlc, R_firefox>>,
      <<R_unknown, R_short>>,
      <<R_empty, R_vlc>>,
      <<R_signal, R_firefox>>,
      <<R_short, R_unknown, R_empty>> }

\* what can happen to subprocess.run and json.loads
SearchKinds ==
    {"not_found", "nonzero_exit", "timeout", "bad_json", "not_object", "ok"}

SearchOutcomes ==
    {[kind |-> k, results |-> <<>>] : k \in SearchKinds \ {"ok"}}
        \cup {[kind |-> "ok", results |-> r] : r \in SearchResults}

\* the loop over search_results.items()
RECURSIVE CollectPackages(_, _)
CollectPackages(packages, results) ==
    IF results = <<>> THEN packages
    ELSE LET parts == split(Head(results).attr_path)
             attr == parts[Len(parts)]
             version == IF Head(results).version = None THEN "unknown"
                        ELSE Head(results).version[1]
         IN  IF Len(parts) >= 3
             THEN CollectPackages(
                      [k \in DOMAIN packages \cup {attr} |->
                          IF k = attr THEN NixPackage(attr, version)
                          ELSE packages[k]],
                      Tail(results))
             ELSE CollectPackages(packages, Tail(results))

EmptyDict == [k \in {} |-> 0]

\* an exception the function does not catch: the executable is missing
\* (FileNotFoundError) or the JSON value is not an object (AttributeError)
ScanRaises(outcome) == outcome.kind \in {"not_found", "not_object"}

\* the value returned when the function returns
scan_nixpkgs_desktop_files(outcome) ==
    IF outcome.kind = "ok" THEN CollectPackages(EmptyDict, outcome.results)
    ELSE EmptyDict

(***************************************************************************)
(* main: seeding of stubs for the curated attrs                            *)
(***************************************************************************)
\* faulty variant: the stub is stored without the "not in" test
SeedPackages_Overwrite(packages, desktop_id_mapping) ==
    [k \in DOMAIN packages \cup Values(desktop_id_mapping) |->
        IF k \in Values(desktop_id_mapping) THEN NixPackage(k, "unknown")
        ELSE packages[k]]

SeedPackages(packages, desktop_id_mapping) ==
    [k \in DOMAIN packages \cup Values(desktop_id_mapping) |->
        IF k \in DOMAIN packages THEN packages[k]
        ELSE NixPackage(k, "unknown")]

(***************************************************************************)
(* create_mapping                                                          *)
(***************************************************************************)
Mapping(flathub_id, nixpkgs_attr, nixpkgs_version, confidence) ==
    [flathub_id |-> flathub_id, nixpkgs_attr |-> nixpkgs_attr,
     nixpkgs_version |-> nixpkgs_version, confidence |-> confidence]

\* id_parts[-1].lower() if id_parts else ""
AppName(flathub_id) ==
    LET id_parts == split(flathub_id) IN
    IF id_parts # <<>> THEN lower(id_parts[Len(id_parts)]) ELSE <<>>

\* the heuristic rule, lines 431-445
FuzzyMatch(flathub_id, packages) ==
    LET app_name == AppName(flathub_id) IN
    IF app_name # <<>> /\ app_name \in DOMAIN packages
    THEN <<Mapping(flathub_id, app_name, packages[app_name].version, "0.8")>>
    ELSE <<>>

\* faulty variants of the loop body: no table lookup; no lower(); no continue
MatchOne_FuzzyOnly(flathub_id, packages, desktop_id_mapping) ==
    FuzzyMatch(flathub_id, packages)

MatchOne_NoLower(flathub_id, packages, desktop_id_mapping) ==
    LET id_parts == split(flathub_id)
        app_name == id_parts[Len(id_parts)]
    IN  IF app_name # <<>> /\ app_name \in DOMAIN packages
        THEN <<Mapping(flathub_id, app_name, packages[app_name].version, "0.8")>>
        ELSE <<>>

MatchOne_NoContinue(flathub_id, packages, desktop_id_mapping) ==
    (IF /\ flathub_id \in DOMAIN desktop_id_mapping
        /\ desktop_id_mapping[flathub_id] \in DOMAIN packages
     THEN <<Mapping(flathub_id, desktop_id_mapping[flathub_id],
                    packages[desktop_id_mapping[flathub_id]].version, "1.0")>>
     ELSE <<>>) \o FuzzyMatch(flathub_id, packages)

\* the body of the loop over flathub_components.items(): the mappings it appends
MatchOne(flathub_id, packages, desktop_id_mapping) ==
    IF /\ flathub_id \in DOMAIN desktop_id_mapping
       /\ desktop_id_mapping[flathub_id] \in DOMAIN packages
    THEN LET nixpkgs_attr == desktop_id_mapping[flathub_id] IN
         <<Mapping(flathub_id, nixpkgs_attr, packages[nixpkgs_attr].version, "1.0")>>
    ELSE FuzzyMatch(flathub_id, packages)

\* the mappings appended for components lo..hi, in order
\* (split in halves to keep the evaluation shallow)
RECURSIVE MatchRange(_, _, _, _, _)
MatchRange(components, packages, desktop_id_mapping, lo, hi) ==
    IF lo > hi THEN <<>>
    ELSE IF lo = hi THEN MatchOne(components[lo].id, packages, desktop_id_mapping)
    ELSE LET mid == (lo + hi) \div 2 IN
         MatchRange(components, packages, desktop_id_mapping, lo, mid)
             \o MatchRange(components, packages, desktop_id_mapping, mid + 1, hi)

create_mapping(components, packages, desktop_id_mapping) ==
    MatchRange(components, packages, desktop_id_mapping, 1, Len(components))

(***************************************************************************)
(* download_icon                                                           *)
(***************************************************************************)
IconExt(icon_url) ==
    IF icon_url # None /\ endswith(icon_url[1], SVG_SUFFIX)
    THEN SVG_SUFFIX ELSE PNG_SUFFIX

\* the path returned, or None; `retrieved` says whether the file is there
\* already or urlretrieve succeeds
download_icon(icon_url, component_id, retrieved) ==
    IF icon_url = None \/ icon_url[1] = <<>> THEN None
    ELSE IF retrieved THEN Some(component_id \o IconExt(icon_url))
    ELSE None

(***************************************************************************)
(* transform_component_xml                                                 *)
(***************************************************************************)
TransformIcon(icon, component) ==
    IF icon.type \in {"remote", "cached"}
    THEN [type |-> "cached", width |-> "128", height |-> "128",
          text |-> component.id \o IconExt(component.icon_url)]
    ELSE icon

\* faulty variant: an existing <pkgname> is kept and the release is added to
\* the existing ones
transform_component_xml_Merges(component, mapping) ==
    LET elem == component.raw_xml IN
    [elem EXCEPT
        !.pkgname = IF elem.pkgname = None THEN Some(mapping.nixpkgs_attr)
                    ELSE elem.pkgname,
        !.releases = Append(elem.releases, mapping.nixpkgs_version),
        !.icons = [i \in DOMAIN elem.icons |-> TransformIcon(elem.icons[i], component)]]

transform_component_xml(component, mapping) ==
    LET elem == component.raw_xml IN
    [elem EXCEPT
        !.pkgname = Some(mapping.nixpkgs_attr),
        !.releases = <<mapping.nixpkgs_version>>,
        !.icons = [i \in DOMAIN elem.icons |-> TransformIcon(elem.icons[i], component)]]

(***************************************************************************)
(* generate_mapping_report                                                 *)
(***************************************************************************)
Min(a, b) == IF a <= b THEN a ELSE b

\* seq[:n]
Take(seq, n) == SubSeq(seq, 1, Min(n, Len(seq)))

IsMapped(maps, comp_id) == \E i \in DOMAIN maps : maps[i].flathub_id = comp_id

\* flathub_components.get(id, <empty component>).name
NameOf(components, id) ==
    IF id \in Keys(components) THEN components[Position(components, id)].name
    ELSE ""

\* faulty variant of the sample: the cap applied before the filter
UnmappedPopular_CapFirst(maps, components) ==
    LET Unmapped(comp) == ~IsMapped(maps, comp.id)
        sample == SelectSeq(Take(Take(components, SampleWindow), SampleLimit), Unmapped)
    IN  [i \in DOMAIN sample |-> [id |-> sample[i].id, name |-> sample[i].name]]

\* the "unmapped_popular" comprehension
UnmappedPopular(maps, components) ==
    LET Unmapped(comp) == ~IsMapped(maps, comp.id)
        sample == Take(SelectSeq(Take(components, SampleWindow), Unmapped), SampleLimit)
    IN  [i \in DOMAIN sample |-> [id |-> sample[i].id, name |-> sample[i].name]]

\* len(mappings) / len(components) * 100, as a fraction
CoveragePercent(maps, components) ==
    IF components # <<>>
    THEN [num |-> Len(maps) * 100, den |-> Len(components)]
    ELSE [num |-> 0, den |-> 1]

generate_mapping_report(maps, components) ==
    [total_flathub_components |-> Len(components),
     total_mappings |-> Len(maps),
     coverage_percent |-> CoveragePercent(maps, components),
     mappings |-> [i \in DOMAIN maps |->
                      [flathub_id |-> maps[i].flathub_id,
                       nixpkgs_attr |-> maps[i].nixpkgs_attr,
                       nixpkgs_version |-> maps[i].nixpkgs_version,
                       confidence |-> maps[i].confidence,
                       flathub_name |-> NameOf(components, maps[i].flathub_id)]],
     unmapped_popular |-> UnmappedPopular(maps, components)]

(***************************************************************************)
(* main                                                                    *)
(***************************************************************************)
Args == [no_nix_search : BOOLEAN, no_icons : BOOLEAN, mapping_only : BOOLEAN]

NotRun == [kind |-> "not_run", results |-> <<>>]
Skipped == [kind |-> "skipped", results |-> <<>>]

Init ==
    /\ pc = "fetch"
    /\ args \in Args
    /\ feed = None
    /\ search = NotRun
    /\ flathub_components = <<>>
    /\ snapshot = EmptyDict
    /\ nixpkgs_packages = EmptyDict
    /\ mappings = <<>>
    /\ report = None
    /\ idx = 0
    /\ root = <<>>
    /\ failed = {}
    /\ icon_count = 0
    /\ catalog_xml = None
    /\ catalog_gz = None

\* fetch_flathub_appstream raises: main prints the error and calls sys.exit(1)
FetchFails ==
    /\ pc = "fetch"
    /\ pc' = "exit"
    /\ UNCHANGED <<args, feed, search, flathub_components, snapshot,
                   nixpkgs_packages, mappings, report, idx, root, failed,
                   icon_count, catalog_xml, catalog_gz>>

\* fetch_flathub_appstream returns the path of a file
FetchOk ==
    /\ pc = "fetch"
    /\ \E doc \in FeedDocs, wellformed \in BOOLEAN :
           feed' = Some([wellformed |-> wellformed,
                         components |-> IF wellformed THEN doc ELSE <<>>])
    /\ pc' = "parse"
    /\ UNCHANGED <<args, search, flathub_components, snapshot, nixpkgs_packages,
                   mappings, report, idx, root, failed, icon_count,
                   catalog_xml, catalog_gz>>

\* faulty variant: a malformed feed is parsed as an empty one and the run goes on
ParseRaises_Recovers ==
    /\ pc = "parse"
    /\ ~feed[1].wellformed
    /\ flathub_components' = <<>>
    /\ pc' = "scan"
    /\ UNCHANGED <<args, feed, search, snapshot, nixpkgs_packages, mappings,
                   report, idx, root, failed, icon_count, catalog_xml, catalog_gz>>

\* ET.parse raises ParseError, which main does not catch
ParseRaises ==
    /\ pc = "parse"
    /\ ~feed[1].wellformed
    /\ pc' = "raised"
    /\ UNCHANGED <<args, feed, search, flathub_components, snapshot,
                   nixpkgs_packages, mappings, report, idx, root, failed,
                   icon_count, catalog_xml, catalog_gz>>

Parse ==
    /\ pc = "parse"
    /\ feed[1].wellformed
    /\ flathub_components' = parse_flathub_appstream(feed[1].components)
    /\ pc' = "scan"
    /\ UNCHANGED <<args, feed, search, snapshot, nixpkgs_packages, mappings,
                   report, idx, root, failed, icon_count, catalog_xml, catalog_gz>>

\* --no-nix-search: nixpkgs_packages = {}
SkipScan ==
    /\ pc = "scan"
    /\ args.no_nix_search
    /\ search' = Skipped
    /\ snapshot' = EmptyDict
    /\ nixpkgs_packages' = EmptyDict
    /\ pc' = "seed"
    /\ UNCHANGED <<args, feed, flathub_components, mappings, report, idx, root,
                   failed, icon_count, catalog_xml, catalog_gz>>

\* scan_nixpkgs_desktop_files returns
Scan ==
    /\ pc = "scan"
    /\ ~args.no_nix_search
    /\ \E outcome \in SearchOutcomes :
           /\ ~ScanRaises(outcome)
           /\ search' = outcome
           /\ snapshot' = scan_nixpkgs_desktop_files(outcome)
           /\ nixpkgs_packages' = scan_nixpkgs_desktop_files(outcome)
    /\ pc' = "seed"
    /\ UNCHANGED <<args, feed, flathub_components, mappings, report, idx, root,
                   failed, icon_count, catalog_xml, catalog_gz>>

\* scan_nixpkgs_desktop_files raises an exception neither it nor main catches
ScanRaisesUncaught ==
    /\ pc = "scan"
    /\ ~args.no_nix_search
    /\ \E outcome \in SearchOutcomes :
           /\ ScanRaises(outcome)
           /\ search' = outcome
    /\ pc' = "raised"
    /\ UNCHANGED <<args, feed, flathub_components, snapshot, nixpkgs_packages,
                   mappings, report, idx, root, failed, icon_count,
                   catalog_xml, catalog_gz>>

\* build_desktop_id_mapping and the loop adding the mapped attrs
Seed ==
    /\ pc = "seed"
    /\ nixpkgs_packages' = SeedPackages(nixpkgs_packages, build_desktop_id_mapping)
    /\ pc' = "match"
    /\ UNCHANGED <<args, feed, search, flathub_components, snapshot, mappings,
                   report, idx, root, failed, icon_count, catalog_xml, catalog_gz>>

Match ==
    /\ pc = "match"
    /\ mappings' = create_mapping(flathub_components, nixpkgs_packages,
                                  build_desktop_id_mapping)
    /\ pc' = "report"
    /\ UNCHANGED <<args, feed, search, flathub_components, snapshot,
                   nixpkgs_packages, report, idx, root, failed, icon_count,
                   catalog_xml, catalog_gz>>

Report ==
    /\ pc = "report"
    /\ report' = Some(generate_mapping_report(mappings, flathub_components))
    /\ pc' = IF args.mapping_only THEN "done" ELSE "catalog"
    /\ idx' = 1
    /\ UNCHANGED <<args, feed, search, flathub_components, snapshot,
                   nixpkgs_packages, mappings, root, failed, icon_count,
                   catalog_xml, catalog_gz>>

\* faulty variant of the try block: a fragment that fails is appended untransformed
AppendTransformed_KeepsRaw(children, component, mapping, raises) ==
    IF raises THEN Append(children, component.raw_xml)
    ELSE Append(children, transform_component_xml(component, mapping))

\* the try block of the loop: the transformed fragment is appended to the
\* root, unless the transformation raises (the warning is printed instead)
AppendTransformed(children, component, mapping, raises) ==
    IF raises THEN children
    ELSE Append(children, transform_component_xml(component, mapping))

\* one iteration of the loop of generate_appstream_catalog; `retrieved` and
\* `raises` are what download_icon and the try block meet
CatalogItem ==
    /\ pc = "catalog"
    /\ idx <= Len(mappings)
    /\ LET mapping == mappings[idx] IN
       IF mapping.flathub_id \notin Keys(flathub_components)
       THEN UNCHANGED <<root, failed, icon_count>>
       ELSE LET component ==
                    flathub_components[Position(flathub_components, mapping.flathub_id)]
            IN  \E retrieved \in BOOLEAN, raises \in BOOLEAN :
                    /\ icon_count' =
                           IF /\ ~args.no_icons
                              /\ component.icon_url # None
                              /\ download_icon(component.icon_url, component.id,
                                               retrieved) # None
                           THEN icon_count + 1
                           ELSE icon_count
                    /\ failed' = IF raises THEN failed \cup {idx} ELSE failed
                    /\ root' = AppendTransformed(root, component, mapping, raises)
    /\ idx' = idx + 1
    /\ UNCHANGED <<pc, args, feed, search, flathub_components, snapshot,
                   nixpkgs_packages, mappings, report, catalog_xml, catalog_gz>>

Catalog(children) ==
    [version |-> "0.16", origin |-> "nixpkgs-flathub", components |-> children]

\* after the loop: the catalog is written, then its compressed copy
CatalogWrite ==
    /\ pc = "catalog"
    /\ idx > Len(mappings)
    /\ catalog_xml' = Some(Catalog(root))
    /\ catalog_gz' = Some(Catalog(root))
    /\ pc' = "done"
    /\ UNCHANGED <<args, feed, search, flathub_components, snapshot,
                   nixpkgs_packages, mappings, report, idx, root, failed, icon_count>>

Next ==
    \/ FetchFails
    \/ FetchOk
    \/ ParseRaises
    \/ Parse
    \/ SkipScan
    \/ Scan
    \/ ScanRaisesUncaught
    \/ Seed
    \/ Match
    \/ Report
    \/ CatalogItem
    \/ CatalogWrite

Spec == Init /\ [][Next]_vars

(***************************************************************************)
(* create_mapping on its own: its inputs are the component mappings the    *)
(* parser can return and package mappings before and after seeding.        *)
(***************************************************************************)
PackageDicts ==
    {scan_nixpkgs_desktop_files(o) : o \in SearchOutcomes}
        \cup {SeedPackages(scan_nixpkgs_desktop_files(o), build_desktop_id_mapping) :
                 o \in SearchOutcomes}

MatcherInit ==
    /\ pc = "match"
    /\ args = [no_nix_search |-> FALSE, no_icons |-> TRUE, mapping_only |-> TRUE]
    /\ \E doc \in FeedDocs :
           /\ feed = Some([wellformed |-> TRUE, components |-> doc])
           /\ flathub_components = parse_flathub_appstream(doc)
    /\ search = NotRun
    /\ snapshot = EmptyDict
    /\ nixpkgs_packages \in PackageDicts
    /\ mappings = <<>>
    /\ report = None
    /\ idx = 0
    /\ root = <<>>
    /\ failed = {}
    /\ icon_count = 0
    /\ catalog_xml = None
    /\ catalog_gz = None

MatcherNext == Match

MatcherSpec == MatcherInit /\ [][MatcherNext]_vars

(***************************************************************************)
(* generate_mapping_report on its own: runs with --no-nix-search and       *)
(* --mapping-only over feeds longer than the sample window, taken at the   *)
(* call of generate_mapping_report.  Component k of such a feed is         *)
(* "n<k>.VLC" (matched through the vlc stub) inside one block of           *)
(* positions and "app.N<k>" (unmatched) outside it.                        *)
(***************************************************************************)
DigitChars == <<"0", "1", "2", "3", "4", "5", "6", "7", "8", "9">>

\* str(k)
RECURSIVE Digits(_)
Digits(k) ==
    IF k < 10 THEN <<DigitChars[k + 1]>>
    ELSE Digits(k \div 10) \o <<DigitChars[(k % 10) + 1]>>

BulkId(k, matched) ==
    IF matched THEN <<"n">> \o Digits(k) \o <<".", "V", "L", "C">>
    ELSE <<"a", "p", "p", ".", "N">> \o Digits(k)

BulkDoc(n, a, b) ==
    [k \in 1..n |->
        Element("desktop", BulkId(k, a <= k /\ k <= b), "App", None, <<>>, <<>>)]

BulkSizes ==
    {SampleLimit + 1} \cup ((SampleWindow - 1)..(SampleWindow + MaxBulkExtra))
BlockStarts == {1, 2, SampleLimit + 1}
BlockEnds ==
    {0, 2, SampleWindow - SampleLimit - 1, SampleWindow - SampleLimit,
     SampleWindow - SampleLimit + 1, SampleWindow - 1, SampleWindow,
     SampleWindow + 1}

ReportInit ==
    /\ pc = "report"
    /\ args = [no_nix_search |-> TRUE, no_icons |-> TRUE, mapping_only |-> TRUE]
    /\ \E n \in BulkSizes, a \in BlockStarts, b \in BlockEnds :
           /\ feed = Some([wellformed |-> TRUE, components |-> BulkDoc(n, a, b)])
           /\ flathub_components = parse_flathub_appstream(BulkDoc(n, a, b))
    /\ search = Skipped
    /\ snapshot = EmptyDict
    /\ nixpkgs_packages = SeedPackages(EmptyDict, build_desktop_id_mapping)
    /\ mappings = create_mapping(flathub_components, nixpkgs_packages,
                                 build_desktop_id_mapping)
    /\ report = None
    /\ idx = 0
    /\ root = <<>>
    /\ failed = {}
    /\ icon_count = 0
    /\ catalog_xml = None
    /\ catalog_gz = None

ReportNext == Report

ReportSpec == ReportInit /\ [][ReportNext]_vars

(***************************************************************************)
(* Properties                                                              *)
(***************************************************************************)
\* create_mapping has returned
PostMatch == pc \in {"report", "catalog", "done"}

ComponentIds == {flathub_components[i].id : i \in DOMAIN flathub_components}

MappingsFor(id) == {j \in DOMAIN mappings : mappings[j].flathub_id = id}

Curated(id) ==
    [flathub_id |-> id,
     nixpkgs_attr |-> build_desktop_id_mapping[id],
     nixpkgs_version |-> nixpkgs_packages[build_desktop_id_mapping[id]].version,
     confidence |-> "1.0"]

\* C1: a component whose identity is a key of the curated table and whose
\* target is a key of the package mapping (live or stub) gets exactly one
\* Mapping: the table's target, that package's version, confidence 1.0,
\* whether or not the last-segment rule would match some package too.
C1_CuratedMatch ==
    PostMatch =>
        \A id \in ComponentIds :
            (/\ id \in DOMAIN build_desktop_id_mapping
             /\ build_desktop_id_mapping[id] \in DOMAIN nixpkgs_packages)
            => /\ Cardinality(MappingsFor(id)) = 1
               /\ \A j \in MappingsFor(id) : mappings[j] = Curated(id)

\* a curated component whose last segment names another package is matched
\* through the table
C1_Witness ==
    /\ PostMatch
    /\ \E id \in ComponentIds :
           /\ id \in DOMAIN build_desktop_id_mapping
           /\ build_desktop_id_mapping[id] \in DOMAIN nixpkgs_packages
           /\ AppName(id) \in DOMAIN nixpkgs_packages
           /\ AppName(id) # build_desktop_id_mapping[id]
           /\ \E j \in MappingsFor(id) : mappings[j].confidence = "1.0"

LastSegmentLower(id) == lower(split(id)[Len(split(id))])

Heuristic(id) ==
    [flathub_id |-> id,
     nixpkgs_attr |-> LastSegmentLower(id),
     nixpkgs_version |-> nixpkgs_packages[LastSegmentLower(id)].version,
     confidence |-> "0.8"]

C3_OrderedUnique ==
    PostMatch =>
        /\ \A j \in DOMAIN mappings : mappings[j].flathub_id \in ComponentIds
        /\ \A j, k \in DOMAIN mappings :
               j < k => Position(flathub_components, mappings[j].flathub_id)
                            < Position(flathub_components, mappings[k].flathub_id)

\* two components are matched, one by each rule
C3_Witness ==
    /\ PostMatch
    /\ Len(mappings) >= 2
    /\ \E j, k \in DOMAIN mappings :
           mappings[j].confidence = "1.0" /\ mappings[k].confidence = "0.8"

\* C4: when create_mapping is called in main, every attr of the curated
\* table is a key of the package mapping, with version "unknown" if the live
\* snapshot lacks it and with the snapshot's entry otherwise; so every
\* component whose identity is a key of the table gets a confidence-1.0
\* Mapping, whatever the snapshot holds.
C4_Seeded ==
    /\ (pc = "match" \/ PostMatch) =>
           /\ Values(build_desktop_id_mapping) \subseteq DOMAIN nixpkgs_packages
           /\ \A k \in DOMAIN snapshot : nixpkgs_packages[k] = snapshot[k]
           /\ \A k \in Values(build_desktop_id_mapping) \ DOMAIN snapshot :
                  nixpkgs_packages[k] = NixPackage(k, "unknown")
    /\ PostMatch =>
           \A id \in ComponentIds \cap DOMAIN build_desktop_id_mapping :
               \E j \in DOMAIN mappings :
                   /\ mappings[j].flathub_id = id
                   /\ mappings[j].nixpkgs_attr = build_desktop_id_mapping[id]
                   /\ mappings[j].confidence = "1.0"
                   /\ mappings[j].nixpkgs_version =
                          IF build_desktop_id_mapping[id] \in DOMAIN snapshot
                          THEN snapshot[build_desktop_id_mapping[id]].version
                          ELSE "unknown"

\* one curated component is matched with its live version, another through
\* a stub
C4_Witness ==
    /\ PostMatch
    /\ search.kind = "ok"
    /\ \E j, k \in DOMAIN mappings :
           /\ mappings[j].confidence = "1.0"
           /\ mappings[j].nixpkgs_attr \in DOMAIN snapshot
           /\ mappings[j].nixpkgs_version # "unknown"
           /\ mappings[k].confidence = "1.0"
           /\ mappings[k].nixpkgs_attr \notin DOMAIN snapshot
           /\ mappings[k].nixpkgs_version = "unknown"

\* the registry query was skipped, or failed and returned
EmptySnapshotRun ==
    search.kind \in {"skipped", "nonzero_exit", "timeout", "bad_json"}

\* C5: when the registry query is skipped or fails, every Mapping of the run
\* is a curated one: its flathub_id is a key of the curated table and its
\* confidence is 1.0; no component outside the table is matched.
C5_CuratedOnly ==
    (PostMatch /\ EmptySnapshotRun) =>
        \A j \in DOMAIN mappings :
            /\ mappings[j].flathub_id \in DOMAIN build_desktop_id_mapping
            /\ mappings[j].confidence = "1.0"

\* the ways the registry query can fail
SearchFailures ==
    {"not_found", "nonzero_exit", "timeout", "bad_json", "not_object"}

\* C6: every failure of the registry query is non-fatal: whether the tool
\* cannot be started, exits with an error, times out or prints output that
\* is not the expected structure, the query yields an empty mapping and the
\* run goes on to seeding, matching and the report.
C6_QueryNonFatal ==
    search.kind \in SearchFailures =>
        /\ pc # "raised"
        /\ snapshot = EmptyDict

\* positions 1..n of the Mappings whose transformation did not raise
KeptUpTo(n) ==
    LET Ok(j) == j \notin failed IN SelectSeq([j \in 1..n |-> j], Ok)

ComponentOf(mapping) ==
    flathub_components[Position(flathub_components, mapping.flathub_id)]

\* the transformed fragments of the Mappings among the first n that did not fail
TransformedUpTo(n) ==
    [k \in DOMAIN KeptUpTo(n) |->
        transform_component_xml(ComponentOf(mappings[KeptUpTo(n)[k]]),
                                mappings[KeptUpTo(n)[k]])]

\* C7: a failed transformation omits that component alone and a failed icon
\* retrieval omits nothing: throughout the loop the catalog root holds, in
\* Mapping order, exactly one transformed fragment for every Mapping
\* processed so far whose transformation succeeded, the loop reaches the end
\* of the list, and the catalog written holds those fragments.
C7_PerItemIsolation ==
    /\ pc = "catalog" =>
           /\ idx \in 1..(Len(mappings) + 1)
           /\ failed \subseteq 1..(idx - 1)
           /\ root = TransformedUpTo(idx - 1)
    /\ (pc = "done" /\ ~args.mapping_only) =>
           /\ idx = Len(mappings) + 1
           /\ catalog_xml = Some(Catalog(TransformedUpTo(Len(mappings))))
           /\ catalog_gz = catalog_xml

\* the first transformation failed, an icon was not retrieved, and the
\* catalog holds the component that followed
C7_Witness ==
    /\ pc = "done"
    /\ catalog_xml # None
    /\ failed = {1}
    /\ Len(mappings) = 2
    /\ Len(catalog_xml[1].components) = 1
    /\ ~args.no_icons
    /\ ComponentOf(mappings[2]).icon_url # None
    /\ icon_count = 0

\* the feed could not be obtained, or the document is malformed
FeedUnusable ==
    \/ pc # "fetch" /\ feed = None
    \/ feed # None /\ ~feed[1].wellformed

\* C8: when the feed cannot be obtained or cannot be parsed, the run stops
\* there: no report and no catalog (plain or compressed) is written, and
\* the registry query, matching and catalog assembly never run.
C8_FatalNoOutput ==
    FeedUnusable =>
        /\ pc \in {"parse", "exit", "raised"}
        /\ report = None
        /\ catalog_xml = None
        /\ catalog_gz = None
        /\ search = NotRun
        /\ mappings = <<>>
        /\ root = <<>>

\* the parse of a malformed document has stopped the run
C8_Witness ==
    /\ pc = "raised"
    /\ feed # None
    /\ ~feed[1].wellformed

\* C9: in a completed run that emits a catalog, the report's matched count
\* and per-match detail are those of the components present in the catalog:
\* a component whose transformation failed is not reported as matched.
C9_ReportMatchesCatalog ==
    (pc = "done" /\ catalog_xml # None) =>
        /\ report[1].total_mappings = Len(catalog_xml[1].components)
        /\ report[1].coverage_percent =
               CoveragePercent(catalog_xml[1].components, flathub_components)
        /\ \A j \in DOMAIN report[1].mappings :
               \E k \in DOMAIN catalog_xml[1].components :
                   /\ catalog_xml[1].components[k].id
                          \in {report[1].mappings[j].flathub_id,
                               report[1].mappings[j].flathub_id \o DESKTOP_SUFFIX}
                   /\ catalog_xml[1].components[k].pkgname
                          = Some(report[1].mappings[j].nixpkgs_attr)

InSample(id) ==
    \E k \in DOMAIN report[1].unmapped_popular :
        report[1].unmapped_popular[k].id = id

Unmatched(i) == ~IsMapped(mappings, flathub_components[i].id)

\* C10 as stated: a component appears in unmapped_popular exactly when it
\* has no Mapping and lies within the first 100 components.
C10_Original ==
    report # None =>
        \A i \in DOMAIN flathub_components :
            InSample(flathub_components[i].id)
                <=> (i <= SampleWindow /\ Unmatched(i))

\* C10 amended: a component appears in unmapped_popular exactly when it has
\* no Mapping, lies within the first 100 components, and fewer than 20
\* components without a Mapping precede it.
C10_Sample ==
    report # None =>
        \A i \in DOMAIN flathub_components :
            InSample(flathub_components[i].id)
                <=> /\ i <= SampleWindow
                    /\ Unmatched(i)
                    /\ Cardinality({j \in 1..(i - 1) : Unmatched(j)}) < SampleLimit

\* the sample is full, a matched component precedes a sampled one, and an
\* unmatched component inside the window and another beyond it are left out
C10_Witness ==
    /\ report # None
    /\ Len(report[1].unmapped_popular) = SampleLimit
    /\ \E i, j \in DOMAIN flathub_components :
           /\ i < j
           /\ ~Unmatched(i)
           /\ InSample(flathub_components[j].id)
    /\ \E i \in DOMAIN flathub_components :
           i <= SampleWindow /\ Unmatched(i) /\ ~InSample(flathub_components[i].id)
    /\ \E i \in DOMAIN flathub_components :
           i > SampleWindow /\ Unmatched(i) /\ ~InSample(flathub_components[i].id)

\* the fragment at position k of the catalog root comes from this Mapping
MappingOfChild(k) == mappings[KeptUpTo(idx - 1)[k]]

\* the file extension the rewritten icons of a component get
ExpectedExt(component) ==
    IF /\ component.icon_url # None
       /\ Len(component.icon_url[1]) >= 4
       /\ SubSeq(component.icon_url[1], Len(component.icon_url[1]) - 3,
                 Len(component.icon_url[1])) = <<".", "s", "v", "g">>
    THEN <<".", "s", "v", "g">>
    ELSE <<".", "p", "n", "g">>

\* C11: every transformed fragment has its package name equal to the
\* Mapping's nixpkgs attr (added when absent, overwritten when present), a
\* releases section of exactly one release with the Mapping's version, and
\* every icon that was remote or cached now of type cached, 128 by 128, named
\* <component id>.svg if the component's icon URL ends in .svg and
\* <component id>.png otherwise; the component's stored fragment is still the
\* feed's element.
C11_Transformed ==
    pc \in {"catalog", "done"} =>
        /\ \A k \in DOMAIN root :
               LET mapping == MappingOfChild(k)
                   component == ComponentOf(mapping)
                   before == component.raw_xml
               IN  /\ root[k].pkgname = Some(mapping.nixpkgs_attr)
                   /\ root[k].releases = <<mapping.nixpkgs_version>>
                   /\ Len(root[k].icons) = Len(before.icons)
                   /\ \A i \in DOMAIN before.icons :
                          before.icons[i].type \in {"remote", "cached"} =>
                              /\ root[k].icons[i].type = "cached"
                              /\ root[k].icons[i].width = "128"
                              /\ root[k].icons[i].height = "128"
                              /\ root[k].icons[i].text
                                     = component.id \o ExpectedExt(component)
        /\ \A i \in DOMAIN flathub_components :
               \E j \in DOMAIN feed[1].components :
                   flathub_components[i].raw_xml = feed[1].components[j]

\* the catalog holds a fragment that had no package name and a cached icon of
\* another size, and one whose package name and releases were replaced and
\* whose icon is an .svg
C11_Witness ==
    /\ pc = "done"
    /\ Len(root) = 2
    /\ \E k \in DOMAIN root :
           /\ ComponentOf(MappingOfChild(k)).raw_xml.pkgname = None
           /\ \E i \in DOMAIN root[k].icons :
                  /\ ComponentOf(MappingOfChild(k)).raw_xml.icons[i].type = "cached"
                  /\ ComponentOf(MappingOfChild(k)).raw_xml.icons[i].width = "64"
                  /\ root[k].icons[i].text = Id_firefox \o <<".", "p", "n", "g">>
    /\ \E k \in DOMAIN root :
           /\ ComponentOf(MappingOfChild(k)).raw_xml.pkgname # None
           /\ ComponentOf(MappingOfChild(k)).raw_xml.pkgname # root[k].pkgname
           /\ Len(ComponentOf(MappingOfChild(k)).raw_xml.releases) > 1
           /\ \E i \in DOMAIN root[k].icons :
                  root[k].icons[i].text = Id_VLC \o <<".", "s", "v", "g">>

\* parse_flathub_appstream has returned
Parsed ==
    \/ pc \in {"scan", "seed", "match", "report", "catalog", "done"}
    \/ pc = "raised" /\ search # NotRun

\* the icons of an element that have the given type and a value
IconsOfType(element, type) ==
    {i \in DOMAIN element.icons :
        element.icons[i].type = type /\ element.icons[i].text # <<>>}

\* C12: the icon URL of a component is the value of a remote icon of its
\* entry whenever the entry has one, whatever other icons it has and in
\* whatever order; with no remote icon it is the base path, "/128x128/" and
\* the value of a cached icon; with neither it is absent.
C12_RemotePreferred ==
    Parsed =>
        \A c \in DOMAIN flathub_components :
            LET element == flathub_components[c].raw_xml
                icon_url == flathub_components[c].icon_url
            IN  IF IconsOfType(element, "remote") # {}
                THEN \E i \in IconsOfType(element, "remote") :
                         icon_url = Some(element.icons[i].text)
                ELSE IF IconsOfType(element, "cached") # {}
                THEN \E i \in IconsOfType(element, "cached") :
                         icon_url = Some(FLATHUB_ICONS_BASE_URL
                                         \o <<"/", "1", "2", "8", "x", "1", "2", "8", "/">>
                                         \o element.icons[i].text)
                ELSE icon_url = None

\* the stripped identity of a feed entry
StrippedId(element) ==
    LET id == strip(element.id) IN
    IF Len(id) >= 8 /\ SubSeq(id, Len(id) - 7, Len(id)) = DESKTOP_SUFFIX
    THEN SubSeq(id, 1, Len(id) - 8)
    ELSE id

\* the positions of the feed entries of a retained kind with this stripped identity
EntriesFor(id) ==
    {j \in DOMAIN feed[1].components :
        /\ feed[1].components[j].type \in {"desktop", "desktop-application"}
        /\ StrippedId(feed[1].components[j]) = id}

\* C13: every key of the parser's mapping is a non-empty identity (an entry
\* whose identity is empty once ".desktop" is stripped is skipped), no key
\* occurs twice, and the record under a key is that of the last feed entry
\* that reduces to it.
C13_NonEmptyLastWins ==
    Parsed =>
        /\ \A c \in DOMAIN flathub_components : flathub_components[c].id # <<>>
        /\ \A c, d \in DOMAIN flathub_components :
               flathub_components[c].id = flathub_components[d].id => c = d
        /\ \A c \in DOMAIN flathub_components :
               LET entries == EntriesFor(flathub_components[c].id) IN
               /\ entries # {}
               /\ \E j \in entries :
                      /\ \A k \in entries : k <= j
                      /\ flathub_components[c].raw_xml = feed[1].components[j]
                      /\ flathub_components[c].name = feed[1].components[j].name

====
